---- MODULE Spec2Model ----
(***************************************************************************)
(* CrewX: the enrollment and balance bookkeeping of the staffing app.      *)
(*                                                                         *)
(* The store is the hosted relational database of supabase_setup.sql; the  *)
(* clients are browser sessions running one build of the app.  Every       *)
(* `await` of a handler is one step of the model, so that the steps of     *)
(* handlers running in different sessions interleave as they do against    *)
(* the real store.  A handler reads the values its closure captured when   *)
(* it was started (the session's cached collections), never the store.     *)
(*                                                                         *)
(* Five builds of the client are in the repository:                        *)
(*   "App"  src/App.tsx                                                    *)
(*   "A"    src/unnamed/part_000, lines 284-1137                           *)
(*   "B"    src/unnamed/part_000, lines 1138-2956                          *)
(*   "C"    src/unnamed/part_001, lines 1-704                              *)
(*   "D"    src/unnamed/part_001, lines 705-1576                           *)
(* and one data access facade, src/unnamed/part_000 lines 1-283 (db).      *)
(* A deployment runs one build; Init chooses it.                           *)
(*                                                                         *)
(* fetchData issues its four selects together (Promise.all); the model     *)
(* takes them as one read of the store.                                    *)
(*                                                                         *)
(* Ten specifications share the store:                                     *)
(*   Spec        enrollments and jobs (Enroll, Cancel, the job management) *)
(*   SpecPay     balances and payout requests                              *)
(*   SpecDel     db.deleteUser against the other calls of the facade       *)
(*   SpecUsers   db.saveUser and the reads of the profiles                 *)
(*   SpecSignIn  the profile a sign-in provisions                          *)
(*   SpecQr      the upload of a payment QR image                          *)
(*   SpecQrLive  SpecQr with the awaited calls eventually returning        *)
(*   SpecBusy    several clicks in one admin view                          *)
(*   SpecFeed    the change feed of table jobs and the fetches it starts   *)
(*   SpecReminders  the reminder checks of a worker session (build B)      *)
(***************************************************************************)
EXTENDS Integers, Sequences, FiniteSets, TLC

\* ------------------------------------------------------------------ bounds
MaxOps == 3          \* worker handlers started in one behaviour

\* ------------------------------------------------------------- the domain
Workers == {"w1", "w2"}
Jobs == {"j1"}
Caps == {1, 2}       \* the capacities (maxWorkers) a job is given
Builds == {"App", "A", "B", "C", "D"}

\* Browser sessions: c1 is worker w1, c2 is worker w2, adm is the administrator.
WorkerClients == {"c1", "c2"}
AdminClients == {"adm"}
Clients == WorkerClients \cup AdminClients
ClientUser == [c \in WorkerClients |->
                 CASE c = "c1" -> "w1" [] c = "c2" -> "w2"]

Pairs == Workers \X Jobs

NoJob == [exists |-> FALSE, maxWorkers |-> 0, enrolledCount |-> 0, status |-> "NONE"]
NewJob(cap) == [exists |-> TRUE, maxWorkers |-> cap, enrolledCount |-> 0, status |-> "OPEN"]

Max(a, b) == IF a >= b THEN a ELSE b

VARIABLES
  build,      \* the build every session runs
  \* enrollment bookkeeping
  jobs,       \* store: table jobs, [Jobs -> job row or NoJob]
  rows,       \* store: table enrollments, number of rows per (user_id, job_id)
  cJobs,      \* session state `jobs`: the last fetched copy of table jobs
  cRows,      \* session state `enrollments`: the last fetched copy
  pc,         \* where each session's running handler is
  oj,         \* the job id the running handler was called with
  lj,         \* the `job` object the running handler captured
  ln,         \* the enrollment count the running handler captured
  ops,        \* handlers each worker session has started so far
  aops,       \* whether the administrator has started a handler
  \* balance bookkeeping
  balance,    \* store: workers.balance per worker
  wds,        \* store: table withdrawals, in insertion order
  user,       \* session state `user`: the balance of the signed-in worker
  cUsers,     \* admin session state `users` / `workers`: fetched balances
  cWds,       \* admin session state `withdrawals`: the last fetched copy
  ppc,        \* where each session's running payment handler is
  pl,         \* what the running payment handler captured
  bal0,       \* history: the balance worker w1 started with
  nReq,       \* history: payout requests started
  nRes,       \* history: approvals and rejections started
  nPay,       \* history: manual payments started
  \* accounts
  accts,      \* store: table workers, whether the worker's row exists
  notes,      \* store: table notifications, number of rows per user_id
  dpc,        \* where the running db.deleteUser call is
  npc,        \* where the running db.saveJob call is
  prof,       \* store: table workers, the profile columns of each row
  ret,        \* what the last read of the facade returned to its caller
  saved,      \* history: the object of the last db.saveUser, per id
  nSave,      \* history: calls of db.saveUser so far
  apc,        \* where each session's sign-in or QR upload is
  al,         \* what that handler captured
  \* the user interface of one client
  hpc,        \* admin view: where each running handler invocation is
  isProcessingQR,  \* session state `isProcessingQR` (App.tsx, build D)
  feed,       \* the change feed of table jobs and the fetches it starts
  reminders   \* build B: the reminder checks of session c1 and what they sent

enrVars == <<jobs, rows, cJobs, cRows, pc, oj, lj, ln, ops, aops>>
payVars == <<balance, wds, user, cUsers, cWds, ppc, pl, bal0, nReq, nRes, nPay>>
delVars == <<accts, notes, dpc, npc>>
uiVars == <<hpc, isProcessingQR, feed, reminders>>
accVars == <<prof, ret, saved, nSave, apc, al, uiVars>>
vars == <<build, enrVars, payVars, delVars, accVars>>

\* ------------------------------------------------------------ the store

\* a table without the constraint would take every insert
NoUnique(r, u, j) == TRUE
\* enrollments: UNIQUE(user_id, job_id)
UniqueOk(r, u, j) == r[<<u, j>>] = 0

\* enrollments.job_id REFERENCES jobs(id)
JobFkOk(js, j) == js[j].exists

\* a foreign key without ON DELETE CASCADE would leave the rows
NoCascadeJob(r, j) == r
\* ... ON DELETE CASCADE: deleting a job row deletes the rows that reference it
CascadeJob(r, j) == [p \in Pairs |-> IF p[2] = j THEN 0 ELSE r[p]]

\* enrollments.user_id, withdrawals.user_id, notifications.user_id
\* REFERENCES workers(id)
UserFkOk(u) == accts[u]

\* db.saveEnrollment: the insert succeeds unless a constraint rejects it
InsertOk(js, r, u, j) == UserFkOk(u) /\ JobFkOk(js, j) /\ UniqueOk(r, u, j)
saveEnrollment(r, u, j) == [r EXCEPT ![<<u, j>>] = @ + 1]

\* db.deleteEnrollmentByUserAndJob: deletes the matching rows, none is no error
deleteEnrollmentByUserAndJob(r, u, j) == [r EXCEPT ![<<u, j>>] = 0]

\* db.deleteEnrollmentsByJob
deleteEnrollmentsByJob(r, j) == [p \in Pairs |-> IF p[2] = j THEN 0 ELSE r[p]]

\* db.updateJob: a partial update of the row with that id (only the fields
\* of `updates` change); no such row is no error
ApplyUpdates(row, u) ==
  [exists |-> TRUE,
   maxWorkers |-> IF "maxWorkers" \in DOMAIN u THEN u.maxWorkers ELSE row.maxWorkers,
   enrolledCount |-> IF "enrolledCount" \in DOMAIN u THEN u.enrolledCount
                     ELSE row.enrolledCount,
   status |-> IF "status" \in DOMAIN u THEN u.status ELSE row.status]
updateJob(js, j, u) ==
  IF js[j].exists THEN [js EXCEPT ![j] = ApplyUpdates(js[j], u)] ELSE js

\* db.deleteJob
deleteJob(js, j) == [js EXCEPT ![j] = NoJob]

\* number of enrollment rows of a job in a copy of the table
RECURSIVE SumRows(_, _, _)
SumRows(r, j, ws) ==
  IF ws = {} THEN 0
  ELSE LET w == CHOOSE x \in ws : TRUE
       IN r[<<w, j>>] + SumRows(r, j, ws \ {w})
CountRows(r, j) == SumRows(r, j, Workers)

\* db.checkEnrollment (called by App.tsx; the facade source in the repository
\* does not contain it): whether the store holds a row for the pair
checkEnrollment(r, u, j) == r[<<u, j>>] > 0

\* ------------------------------------------------------ session helpers

\* enrollments.some(e => e.userId === user.id && e.jobId === job.id)
isEnrolled(c, j) == cRows[c][<<ClientUser[c], j>>] > 0

\* enrollments.filter(e => e.jobId === jobId).length
actualCount(c, j) == CountRows(cRows[c], j)

\* App.tsx fetchData: the fetched jobs with enrolledCount recomputed from the
\* fetched enrollments
reconciledJobs(js, r) ==
  [j \in Jobs |-> IF js[j].exists
                  THEN [js[j] EXCEPT !.enrolledCount = CountRows(r, j)]
                  ELSE js[j]]

\* fetchData: replaces the session's collections by what the store holds now.
\* No admin handler reads `enrollments`, so the model keeps no copy of it
\* for the admin session.
fetchedJobs == IF build = "App" THEN reconciledJobs(jobs, rows) ELSE jobs
fetchedRows(c) == IF c \in WorkerClients THEN rows ELSE cRows[c]

\* the handler of session c has returned
Return(c) ==
  /\ pc' = [pc EXCEPT ![c] = "idle"]
  /\ oj' = [oj EXCEPT ![c] = "none"]
  /\ lj' = [lj EXCEPT ![c] = NoJob]
  /\ ln' = [ln EXCEPT ![c] = 0]

Goto(c, l) == pc' = [pc EXCEPT ![c] = l]

RECURSIVE SumOps(_, _)
SumOps(f, cs) ==
  IF cs = {} THEN 0
  ELSE LET c == CHOOSE x \in cs : TRUE IN f[c] + SumOps(f, cs \ {c})
TotalOps == SumOps(ops, WorkerClients)

\* a handler is started from the idle session c.  A behaviour has at most
\* MaxOps worker handlers and one admin handler.
Start(c) ==
  /\ pc[c] = "idle"
  /\ IF c \in AdminClients
     THEN ~aops /\ aops' = TRUE /\ ops' = ops
     ELSE TotalOps < MaxOps /\ ops' = [ops EXCEPT ![c] = @ + 1] /\ aops' = aops

\* ---------------------------------------------------- worker handlers

\* App.tsx handleEnrollAttempt: opens the confirmation with the job object
\* of the list (openJobs: the jobs the list shows as OPEN); refuses a full
\* job unless the list shows the worker enrolled
App_handleEnrollAttempt(c, j) ==
  /\ build = "App" /\ Start(c) /\ cJobs[c][j].exists
  /\ cJobs[c][j].status = "OPEN"
  /\ ~(~isEnrolled(c, j) /\ cJobs[c][j].enrolledCount >= cJobs[c][j].maxWorkers)
  /\ Goto(c, "modal")
  /\ oj' = [oj EXCEPT ![c] = j]
  /\ lj' = [lj EXCEPT ![c] = cJobs[c][j]]
  /\ UNCHANGED <<payVars, delVars, build, accVars, jobs, rows, cJobs, cRows, ln>>

\* App.tsx handleEnrollConfirm up to its first write: asks the store whether
\* the pair is enrolled and cancels or enrolls accordingly
App_handleEnrollConfirm(c) ==
  /\ build = "App" /\ pc[c] = "modal"
  /\ IF checkEnrollment(rows, ClientUser[c], oj[c])
     THEN Goto(c, "del") /\ UNCHANGED <<oj, lj, ln>>
     ELSE IF lj[c].enrolledCount >= lj[c].maxWorkers
          THEN Return(c)
          ELSE Goto(c, "ins") /\ UNCHANGED <<oj, lj, ln>>
  /\ UNCHANGED <<payVars, delVars, build, accVars, jobs, rows, cJobs, cRows, ops, aops>>

\* part_001 handleEnrollAttempt (build D): a job the list shows as enrolled
\* goes straight to handleEnrollConfirm, any other opens the confirmation
D_handleEnrollAttempt(c, j) ==
  /\ build = "D" /\ Start(c) /\ cJobs[c][j].exists
  /\ IF isEnrolled(c, j)
     THEN Goto(c, "del")
     ELSE /\ cJobs[c][j].status = "OPEN"
          /\ cJobs[c][j].enrolledCount < cJobs[c][j].maxWorkers
          /\ Goto(c, "modal")
  /\ oj' = [oj EXCEPT ![c] = j]
  /\ lj' = [lj EXCEPT ![c] = cJobs[c][j]]
  /\ UNCHANGED <<payVars, delVars, build, accVars, jobs, rows, cJobs, cRows, ln>>

\* part_001 handleEnrollConfirm (build D): decides by the session's own list
D_handleEnrollConfirm(c) ==
  /\ build = "D" /\ pc[c] = "modal"
  /\ Goto(c, IF isEnrolled(c, oj[c]) THEN "del" ELSE "ins")
  /\ UNCHANGED <<payVars, delVars, build, accVars, jobs, rows, cJobs, cRows, oj, lj, ln, ops, aops>>

\* part_000 handleEnroll (build A); a worker is shown the jobs of the list
\* that are OPEN, and the button is disabled for a job the list shows as
\* enrolled or full
A_handleEnroll(c, j) ==
  /\ build = "A" /\ Start(c) /\ cJobs[c][j].exists
  /\ cJobs[c][j].status = "OPEN"
  /\ ~isEnrolled(c, j)
  /\ cJobs[c][j].enrolledCount < cJobs[c][j].maxWorkers
  /\ Goto(c, "ins")
  /\ oj' = [oj EXCEPT ![c] = j]
  /\ lj' = [lj EXCEPT ![c] = cJobs[c][j]]
  /\ UNCHANGED <<payVars, delVars, build, accVars, jobs, rows, cJobs, cRows, ln>>

\* part_000 handleUnenroll (build A); offered for the enrollments of the list
A_handleUnenroll(c, j) ==
  /\ build = "A" /\ Start(c) /\ cJobs[c][j].exists
  /\ isEnrolled(c, j)
  /\ Goto(c, "del")
  /\ oj' = [oj EXCEPT ![c] = j]
  /\ lj' = [lj EXCEPT ![c] = cJobs[c][j]]
  /\ UNCHANGED <<payVars, delVars, build, accVars, jobs, rows, cJobs, cRows, ln>>

\* the ENROLL button of JobsView (builds B and C): setShowEnrollConfirm(id)
B_enrollButton(c, j) ==
  /\ ~isEnrolled(c, j)
  /\ actualCount(c, j) < cJobs[c][j].maxWorkers
  /\ cJobs[c][j].status = "OPEN"
C_enrollButton(c, j) ==
  ~(~isEnrolled(c, j) /\ actualCount(c, j) >= cJobs[c][j].maxWorkers)
onEnroll(c, j) ==
  /\ build \in {"B", "C"} /\ Start(c) /\ cJobs[c][j].exists
  /\ IF build = "B" THEN B_enrollButton(c, j) ELSE C_enrollButton(c, j)
  /\ Goto(c, "modal")
  /\ oj' = [oj EXCEPT ![c] = j]
  /\ UNCHANGED <<payVars, delVars, build, accVars, jobs, rows, cJobs, cRows, lj, ln>>

\* part_000 enrollInJob (build B) up to its first write
B_enrollInJob(c) ==
  /\ build = "B" /\ pc[c] = "modal"
  /\ cJobs[c][oj[c]].exists /\ cJobs[c][oj[c]].status = "OPEN"
  /\ Goto(c, "ins")
  /\ lj' = [lj EXCEPT ![c] = cJobs[c][oj[c]]]
  /\ ln' = [ln EXCEPT ![c] = actualCount(c, oj[c])]
  /\ UNCHANGED <<payVars, delVars, build, accVars, jobs, rows, cJobs, cRows, oj, ops, aops>>

\* part_001 enrollInJob (build C) up to its first write
C_enrollInJob(c) ==
  /\ build = "C" /\ pc[c] = "modal"
  /\ cJobs[c][oj[c]].exists
  /\ Goto(c, "ins")
  /\ lj' = [lj EXCEPT ![c] = cJobs[c][oj[c]]]
  /\ ln' = [ln EXCEPT ![c] = actualCount(c, oj[c])]
  /\ UNCHANGED <<payVars, delVars, build, accVars, jobs, rows, cJobs, cRows, oj, ops, aops>>

\* MyEnrolledJobsView (builds B and C): setShowCancelConfirm(id)
onCancelEnroll(c, j) ==
  /\ build \in {"B", "C"} /\ Start(c) /\ cJobs[c][j].exists
  /\ isEnrolled(c, j)
  /\ build = "B" => cJobs[c][j].status # "COMPLETED"
  /\ Goto(c, "cmodal")
  /\ oj' = [oj EXCEPT ![c] = j]
  /\ UNCHANGED <<payVars, delVars, build, accVars, jobs, rows, cJobs, cRows, lj, ln>>

\* cancelEnrollment (builds B and C) up to its first write
cancelEnrollment(c) ==
  /\ build \in {"B", "C"} /\ pc[c] = "cmodal"
  /\ Goto(c, "del")
  /\ lj' = [lj EXCEPT ![c] = cJobs[c][oj[c]]]
  /\ ln' = [ln EXCEPT ![c] = actualCount(c, oj[c])]
  /\ UNCHANGED <<payVars, delVars, build, accVars, jobs, rows, cJobs, cRows, oj, ops, aops>>

\* the fields a handler writes to the job after its insert
App_enrollUpdates(job) == [enrolledCount |-> job.enrolledCount + 1]
B_enrollUpdates(job, n) ==
  [enrolledCount |-> n + 1,
   status |-> IF n + 1 >= job.maxWorkers THEN "CLOSED" ELSE job.status]
C_enrollUpdates(job, n) ==
  [enrolledCount |-> n + 1,
   status |-> IF n + 1 >= job.maxWorkers THEN "CLOSED" ELSE "OPEN"]
enrollUpdates(c) ==
  CASE build = "B" -> B_enrollUpdates(lj[c], ln[c])
    [] build = "C" -> C_enrollUpdates(lj[c], ln[c])
    [] OTHER -> App_enrollUpdates(lj[c])

\* the fields a handler writes to the job after its delete
App_cancelUpdates(job) == [enrolledCount |-> Max(0, job.enrolledCount - 1)]
B_cancelUpdates(job, n) ==
  [enrolledCount |-> Max(0, n - 1),
   status |-> IF job.status = "CLOSED" THEN "OPEN" ELSE job.status]
C_cancelUpdates(job, n) == [enrolledCount |-> Max(0, n - 1), status |-> "OPEN"]
cancelUpdates(c) ==
  CASE build = "B" -> B_cancelUpdates(lj[c], ln[c])
    [] build = "C" -> C_cancelUpdates(lj[c], ln[c])
    [] OTHER -> App_cancelUpdates(lj[c])

\* a handler that did not look at the error would go on to the job update
IgnoreInsertError(c) == Goto(c, "inc") /\ UNCHANGED <<oj, lj, ln>>
\* the catch block of the Enroll handlers: the thrown error ends the
\* handler, after an alert in all builds but D
CatchInsertError(c) ==
  IF build = "D" THEN Return(c) ELSE Goto(c, "alert") /\ UNCHANGED <<oj, lj, ln>>

\* await db.saveEnrollment(...): a rejected insert throws, and every build's
\* catch ends the handler there
InsertStep(c) ==
  /\ pc[c] = "ins"
  /\ IF InsertOk(jobs, rows, ClientUser[c], oj[c])
     THEN /\ rows' = saveEnrollment(rows, ClientUser[c], oj[c])
          /\ Goto(c, "inc") /\ UNCHANGED <<oj, lj, ln>>
     ELSE /\ UNCHANGED rows
          /\ CatchInsertError(c)
  /\ UNCHANGED <<payVars, delVars, build, accVars, jobs, cJobs, cRows, ops, aops>>

\* the alert of the catch block is closed; the model takes the confirmation
\* of builds B and C, which stays open, as closed with it
AlertClosed(c) ==
  /\ pc[c] = "alert"
  /\ Return(c)
  /\ UNCHANGED <<payVars, delVars, build, accVars, jobs, rows, cJobs, cRows, ops, aops>>

\* await db.updateJob(job.id, {enrolledCount: ...}) of an enroll
IncStep(c) ==
  /\ pc[c] = "inc"
  /\ jobs' = updateJob(jobs, oj[c], enrollUpdates(c))
  /\ Goto(c, "fetch")
  /\ UNCHANGED <<payVars, delVars, build, accVars, rows, cJobs, cRows, oj, lj, ln, ops, aops>>

\* await db.deleteEnrollmentByUserAndJob(...); builds B and C skip the job
\* update when their list has no such job.  The label records whether the
\* delete found a row ("dec") or none ("dec0"); the handler does not know.
DeleteStep(c) ==
  /\ pc[c] = "del"
  /\ rows' = deleteEnrollmentByUserAndJob(rows, ClientUser[c], oj[c])
  /\ Goto(c, IF build \in {"B", "C"} /\ ~lj[c].exists THEN "fetch"
             ELSE IF rows[<<ClientUser[c], oj[c]>>] = 0 THEN "dec0" ELSE "dec")
  /\ UNCHANGED <<payVars, delVars, build, accVars, jobs, cJobs, cRows, oj, lj, ln, ops, aops>>

\* await db.updateJob(job.id, {enrolledCount: ...}) of a cancel
DecStep(c) ==
  /\ pc[c] \in {"dec", "dec0"}
  /\ jobs' = updateJob(jobs, oj[c], cancelUpdates(c))
  /\ Goto(c, "fetch")
  /\ UNCHANGED <<payVars, delVars, build, accVars, rows, cJobs, cRows, oj, lj, ln, ops, aops>>

\* await fetchData() at the end of a handler
FetchStep(c) ==
  /\ pc[c] = "fetch"
  /\ cJobs' = [cJobs EXCEPT ![c] = fetchedJobs]
  /\ cRows' = [cRows EXCEPT ![c] = fetchedRows(c)]
  /\ Return(c)
  /\ UNCHANGED <<payVars, delVars, build, accVars, jobs, rows, ops, aops>>

\* ... one of whose selects fails: fetchData catches the error and leaves
\* the session's collections as they were
FetchFails(c) ==
  /\ pc[c] = "fetch"
  /\ Return(c)
  /\ UNCHANGED <<payVars, delVars, build, accVars, jobs, rows, cJobs, cRows, ops, aops>>

\* fetchData run by a realtime change event, the auth listener or a page
\* load while no handler is running
Refresh(c) ==
  /\ pc[c] = "idle" \/ (pc[c] \in {"modal", "cmodal"} /\ build \in {"B", "D"})
  /\ cJobs' = [cJobs EXCEPT ![c] = fetchedJobs]
  /\ cRows' = [cRows EXCEPT ![c] = fetchedRows(c)]
  /\ <<cJobs', cRows'>> # <<cJobs, cRows>>
  /\ UNCHANGED <<payVars, delVars, build, accVars, jobs, rows, pc, oj, lj, ln, ops, aops>>

\* ----------------------------------------------------- admin handlers

\* handleToggleJobStatus (App.tsx), updateJobStatus from the Close/Reopen
\* button (build B); no button of build A calls handleJobAction with
\* 'toggle_status'
toggleStatus(c, j) ==
  /\ build \in {"App", "B"} /\ Start(c) /\ cJobs[c][j].exists
  /\ jobs' = updateJob(jobs, j,
       [status |-> IF cJobs[c][j].status = "OPEN" THEN "CLOSED" ELSE "OPEN"])
  /\ Goto(c, "fetch")
  /\ UNCHANGED <<payVars, delVars, build, accVars, rows, cJobs, cRows, oj, lj, ln>>

\* handleFinishJob (App.tsx), handleJobAction 'finish' (build A),
\* updateJobStatus from the Finish button (build B)
finishJob(c, j) ==
  /\ build \in {"App", "A", "B"} /\ Start(c) /\ cJobs[c][j].exists
  /\ cJobs[c][j].status # "COMPLETED"
  /\ jobs' = updateJob(jobs, j, [status |-> "COMPLETED"])
  /\ Goto(c, "fetch")
  /\ UNCHANGED <<payVars, delVars, build, accVars, rows, cJobs, cRows, oj, lj, ln>>

\* the Edit button: setEditingJob(job) / setJobForm({...job})
openEdit(c, j) ==
  /\ build \in {"App", "A", "B"} /\ Start(c) /\ cJobs[c][j].exists
  /\ Goto(c, "edit")
  /\ oj' = [oj EXCEPT ![c] = j]
  /\ lj' = [lj EXCEPT ![c] = cJobs[c][j]]
  /\ UNCHANGED <<payVars, delVars, build, accVars, jobs, rows, cJobs, cRows, ln>>

\* what the submitted form writes: App.tsx the whole editingJob object (its
\* form edits title, date and pay); build A the whole jobForm, whose
\* maxWorkers the form edits; build B the form's fields only
App_editUpdates(job) ==
  [maxWorkers |-> job.maxWorkers, enrolledCount |-> job.enrolledCount,
   status |-> job.status]
A_editUpdates(job, cap) ==
  [maxWorkers |-> cap, enrolledCount |-> job.enrolledCount, status |-> job.status]
B_editUpdates(cap) == [maxWorkers |-> cap]

\* handleUpdateJobDetails (App.tsx), handleSaveJob (build A), updateJob (build B)
submitEdit(c) ==
  /\ pc[c] = "edit"
  /\ \E cap \in Caps :
       /\ build = "App" => cap = lj[c].maxWorkers
       /\ jobs' = updateJob(jobs, oj[c],
            CASE build = "App" -> App_editUpdates(lj[c])
              [] build = "A" -> A_editUpdates(lj[c], cap)
              [] OTHER -> B_editUpdates(cap))
  /\ Goto(c, "fetch")
  /\ UNCHANGED <<payVars, delVars, build, accVars, rows, cJobs, cRows, oj, lj, ln, ops, aops>>

\* the store deletes a job row and, by ON DELETE CASCADE, its enrollments
dbDeleteJob(j) ==
  /\ jobs' = deleteJob(jobs, j)
  /\ rows' = CascadeJob(rows, j)

\* handleDeleteJob (App.tsx), handleJobAction 'delete' (build A)
handleDeleteJob(c, j) ==
  /\ build \in {"App", "A"} /\ Start(c) /\ cJobs[c][j].exists
  /\ dbDeleteJob(j)
  /\ Goto(c, "fetch")
  /\ UNCHANGED <<payVars, delVars, build, accVars, cJobs, cRows, oj, lj, ln>>

\* part_000 deleteJob (build B): await db.deleteEnrollmentsByJob(jobId)
B_deleteJob(c, j) ==
  /\ build = "B" /\ Start(c) /\ cJobs[c][j].exists
  /\ rows' = deleteEnrollmentsByJob(rows, j)
  /\ Goto(c, "deljob")
  /\ oj' = [oj EXCEPT ![c] = j]
  /\ UNCHANGED <<payVars, delVars, build, accVars, jobs, cJobs, cRows, lj, ln>>

\* ... then await db.deleteJob(jobId)
B_deleteJobStep(c) ==
  /\ pc[c] = "deljob"
  /\ dbDeleteJob(oj[c])
  /\ Goto(c, "fetch")
  /\ UNCHANGED <<payVars, delVars, build, accVars, cJobs, cRows, oj, lj, ln, ops, aops>>

\* ------------------------------------------------------ specification

-----------------------------------------------------------------------------
\* Balances and payout requests

MaxPayOps == 3       \* payment handlers started in one behaviour
MaxWds == 2          \* rows of table withdrawals

PayBuilds == {"App", "A", "B", "D"}    \* build C has no payment handler
\* Browser sessions: s1 and s2 are both signed in as worker w1, a1 as the
\* administrator.
WorkerSessions == {"s1", "s2"}
AdminSessions == {"a1"}
Sessions == WorkerSessions \cup AdminSessions
SessionUser == [s \in WorkerSessions |-> "w1"]
Balances == {0, 1, 2}    \* the balance worker w1 starts with
Amounts == {1, 2}        \* what a worker types into the withdraw form
JobPays == {1}           \* job.pay, and what build B's pay form accepts (> 0)
PayInputs == {-1, 1}     \* what parseFloat(payAmount) gives build A

NoLocals == [w |-> "none", i |-> 0, amt |-> 0, bal |-> 0, seq |-> FALSE]

\* db.saveWithdrawal: insert, rejected when the worker's row is gone
saveWithdrawal(ws, u, amt) ==
  Append(ws, [userId |-> u, amount |-> amt, status |-> "PENDING"])

\* db.updateWithdrawal: sets the status of the row with that id, whatever
\* its status is
updateWithdrawal(ws, i, st) ==
  IF i \in 1..Len(ws) THEN [ws EXCEPT ![i].status = st] ELSE ws

\* db.updateUser(id, {balance}): no such row is no error
updateUser(b, u, x) == IF accts[u] THEN [b EXCEPT ![u] = x] ELSE b

\* payment handlers started so far
PayOps == nReq + nRes + nPay

PGoto(c, l) == ppc' = [ppc EXCEPT ![c] = l]
PReturn(c) ==
  /\ ppc' = [ppc EXCEPT ![c] = "idle"]
  /\ pl' = [pl EXCEPT ![c] = NoLocals]

\* no payout request is between its insert and its balance write
WorkersQuiet == \A s \in WorkerSessions : ppc[s] # "wupd"

\* the admin views list withdrawals.filter(w => w.status === PENDING)
PendingShown(a, i) == i \in 1..Len(cWds[a]) /\ cWds[a][i].status = "PENDING"

\* App.tsx and build D, handleWithdrawalAttempt: the guards, then the modal
handleWithdrawalAttempt(s, amt) ==
  /\ build \in {"App", "D"}
  /\ ppc[s] = "idle" /\ PayOps < MaxPayOps
  /\ amt > 0 /\ amt <= user[s]
  /\ PGoto(s, "wmodal")
  /\ pl' = [pl EXCEPT ![s].amt = amt]
  /\ nReq' = nReq + 1
  /\ UNCHANGED <<build, accVars, enrVars, delVars, balance, wds, user, cUsers, cWds,
                 bal0, nRes, nPay>>

\* confirmWithdrawal, to its first await: the closure's `user` is the
\* session's current one; db.saveWithdrawal
confirmWithdrawal(s) ==
  /\ build \in {"App", "D"}
  /\ ppc[s] = "wmodal" /\ Len(wds) < MaxWds
  /\ UserFkOk(SessionUser[s])
  /\ wds' = saveWithdrawal(wds, SessionUser[s], pl[s].amt)
  /\ pl' = [pl EXCEPT ![s].w = SessionUser[s], ![s].bal = user[s] - pl[s].amt]
  /\ PGoto(s, "wupd")
  /\ UNCHANGED <<build, accVars, enrVars, delVars, balance, user, cUsers, cWds,
                 bal0, nReq, nRes, nPay>>

\* build A, handleRequestPayout, to its first await
A_handleRequestPayout(s) ==
  /\ build = "A"
  /\ ppc[s] = "idle" /\ PayOps < MaxPayOps /\ Len(wds) < MaxWds
  /\ user[s] > 0
  /\ UserFkOk(SessionUser[s])
  /\ wds' = saveWithdrawal(wds, SessionUser[s], user[s])
  /\ pl' = [pl EXCEPT ![s].w = SessionUser[s], ![s].amt = user[s], ![s].bal = 0]
  /\ PGoto(s, "wupd")
  /\ nReq' = nReq + 1
  /\ UNCHANGED <<build, accVars, enrVars, delVars, balance, user, cUsers, cWds,
                 bal0, nRes, nPay>>

\* build B, WalletView's button and requestWithdrawal: the request is
\* saved, the balance is left alone
B_requestWithdrawal(s, amt) ==
  /\ build = "B"
  /\ ppc[s] = "idle" /\ PayOps < MaxPayOps /\ Len(wds) < MaxWds
  /\ amt > 0 /\ amt <= user[s]
  /\ UserFkOk(SessionUser[s])
  /\ wds' = saveWithdrawal(wds, SessionUser[s], amt)
  /\ PGoto(s, "pfetch")
  /\ nReq' = nReq + 1
  /\ UNCHANGED <<build, accVars, enrVars, delVars, balance, user, cUsers, cWds, pl,
                 bal0, nRes, nPay>>

\* await db.updateUser(id, { balance: newBalance }); App.tsx and build D
\* then setUser({...user, balance: newBalance})
UpdateUserStep(c) ==
  /\ ppc[c] = "wupd"
  /\ balance' = updateUser(balance, pl[c].w, pl[c].bal)
  /\ user' = IF c \in WorkerSessions /\ build \in {"App", "D"}
             THEN [user EXCEPT ![c] = pl[c].bal] ELSE user
  /\ PGoto(c, "pfetch")
  /\ UNCHANGED <<build, accVars, enrVars, delVars, wds, cUsers, cWds, pl,
                 bal0, nReq, nRes, nPay>>

\* App.tsx, handleApproveWithdrawal
App_handleApproveWithdrawal(a, i) ==
  /\ build = "App"
  /\ ppc[a] = "idle" /\ PayOps < MaxPayOps
  /\ PendingShown(a, i)
  /\ wds' = updateWithdrawal(wds, i, "APPROVED")
  /\ pl' = [pl EXCEPT ![a].i = i, ![a].seq = WorkersQuiet]
  /\ PGoto(a, "pfetch")
  /\ nRes' = nRes + 1
  /\ UNCHANGED <<build, accVars, enrVars, delVars, balance, user, cUsers, cWds,
                 bal0, nReq, nPay>>

\* App.tsx, handleRejectWithdrawal, to its first await; the worker is looked
\* up in the `workers` of the closure
App_handleRejectWithdrawal(a, i) ==
  /\ build = "App"
  /\ ppc[a] = "idle" /\ PayOps < MaxPayOps
  /\ PendingShown(a, i)
  /\ wds' = updateWithdrawal(wds, i, "REJECTED")
  /\ LET w == cWds[a][i].userId
     IN pl' = [pl EXCEPT ![a].i = i, ![a].w = w, ![a].seq = WorkersQuiet,
                         ![a].bal = cUsers[a][w] + cWds[a][i].amount]
  /\ PGoto(a, "wupd")
  /\ nRes' = nRes + 1
  /\ UNCHANGED <<build, accVars, enrVars, delVars, balance, user, cUsers, cWds,
                 bal0, nReq, nPay>>

\* build A, the Reject and Approve buttons: db.updateWithdrawal(...).then(fetchData)
A_resolve(a, i, st) ==
  /\ build = "A"
  /\ ppc[a] = "idle" /\ PayOps < MaxPayOps
  /\ PendingShown(a, i)
  /\ wds' = updateWithdrawal(wds, i, st)
  /\ pl' = [pl EXCEPT ![a].i = i, ![a].seq = WorkersQuiet]
  /\ PGoto(a, "pfetch")
  /\ nRes' = nRes + 1
  /\ UNCHANGED <<build, accVars, enrVars, delVars, balance, user, cUsers, cWds,
                 bal0, nReq, nPay>>

\* build B, processWithdrawal, to its first await: approving first lowers
\* the balance found in the closure's `users`, rejecting goes to the status
B_processWithdrawal(a, i, approve) ==
  /\ build = "B"
  /\ ppc[a] = "idle" /\ PayOps < MaxPayOps
  /\ PendingShown(a, i)
  /\ LET w == cWds[a][i].userId
     IN IF approve
        THEN /\ balance' = updateUser(balance, w,
                                      Max(0, cUsers[a][w] - cWds[a][i].amount))
             /\ PGoto(a, "wstatus")
             /\ UNCHANGED wds
        ELSE /\ wds' = updateWithdrawal(wds, i, "REJECTED")
             /\ PGoto(a, "pfetch")
             /\ UNCHANGED balance
  /\ pl' = [pl EXCEPT ![a].i = i, ![a].seq = WorkersQuiet]
  /\ nRes' = nRes + 1
  /\ UNCHANGED <<build, accVars, enrVars, delVars, user, cUsers, cWds, bal0, nReq, nPay>>

\* build B, processWithdrawal: await db.updateWithdrawal(id, newStatus)
StatusStep(a) ==
  /\ ppc[a] = "wstatus"
  /\ wds' = updateWithdrawal(wds, pl[a].i, "APPROVED")
  /\ PGoto(a, "pfetch")
  /\ UNCHANGED <<build, accVars, enrVars, delVars, balance, user, cUsers, cWds, pl,
                 bal0, nReq, nRes, nPay>>

\* a manual payment of x to worker w: the new balance is computed from the
\* worker object of the session's list
Pay(a, w, x) ==
  /\ ppc[a] = "idle" /\ PayOps < MaxPayOps
  /\ balance' = updateUser(balance, w, cUsers[a][w] + x)
  /\ pl' = [pl EXCEPT ![a].w = w, ![a].amt = x]
  /\ PGoto(a, "pfetch")
  /\ nPay' = nPay + 1
  /\ UNCHANGED <<build, accVars, enrVars, delVars, wds, user, cUsers, cWds,
                 bal0, nReq, nRes>>

\* App.tsx, handleAddWorkerPay(worker, job.pay, job.id)
App_handleAddWorkerPay(a, w) == build = "App" /\ \E x \in JobPays : Pay(a, w, x)
\* build A, handleAdminPay: any number the form parses
A_handleAdminPay(a, w) == build = "A" /\ \E x \in PayInputs : Pay(a, w, x)
\* build B, handleConfirmPay (amount > 0) and addEarnings
B_addEarnings(a, w) == build = "B" /\ \E x \in JobPays : x > 0 /\ Pay(a, w, x)

\* what a session holds after reading the store: builds B and D take
\* `user` from the fetched data, the admin views take both lists
readUser(c) == [user EXCEPT ![c] = balance[SessionUser[c]]]

\* await fetchData() at the end of a handler
PFetchStep(c) ==
  /\ ppc[c] = "pfetch"
  /\ IF c \in WorkerSessions
     THEN /\ user' = IF build \in {"B", "D"} THEN readUser(c) ELSE user
          /\ UNCHANGED <<cUsers, cWds>>
     ELSE /\ cUsers' = [cUsers EXCEPT ![c] = balance]
          /\ cWds' = [cWds EXCEPT ![c] = wds]
          /\ UNCHANGED user
  /\ PReturn(c)
  /\ UNCHANGED <<build, accVars, enrVars, delVars, balance, wds, bal0, nReq, nRes, nPay>>

\* fetchData's catch: a failed read leaves the session's state as it was
PFetchFails(c) ==
  /\ ppc[c] = "pfetch"
  /\ PReturn(c)
  /\ UNCHANGED <<build, accVars, enrVars, delVars, balance, wds, user, cUsers, cWds,
                 bal0, nReq, nRes, nPay>>

\* the session reads the store outside a handler: the page is loaded again,
\* or an auth event runs syncUserProfile (App.tsx) or the auth listener
\* (build D), which may happen while the withdraw modal is open
PRefresh(c) ==
  /\ \/ ppc[c] = "idle"
     \/ ppc[c] = "wmodal" /\ build \in {"App", "D"}
  /\ IF c \in WorkerSessions
     THEN /\ user' = readUser(c)
          /\ user' # user
          /\ UNCHANGED <<cUsers, cWds>>
     ELSE /\ cUsers' = [cUsers EXCEPT ![c] = balance]
          /\ cWds' = [cWds EXCEPT ![c] = wds]
          /\ <<cUsers', cWds'>> # <<cUsers, cWds>>
          /\ UNCHANGED user
  /\ UNCHANGED <<build, accVars, enrVars, delVars, balance, wds, ppc, pl,
                 bal0, nReq, nRes, nPay>>

\* ------------------------------------- one admin view, several clicks
\* App.tsx renders the Approve and Reject buttons of every request its
\* `withdrawals` shows PENDING, with no `disabled` and under no overlay
\* (isSyncing is not set by these handlers): each click runs its own
\* invocation of the handler over the state of the one admin view a1.
Handlers == {"h1", "h2"}     \* invocations that may be running at once
NoRun == [l |-> "idle", op |-> "none", i |-> 0, w |-> "none", bal |-> 0]

\* onClick={() => handleApproveWithdrawal(w)}, to its first await
clickApprove(h, i) ==
  /\ build = "App" /\ hpc[h].l = "idle"
  /\ PendingShown("a1", i)
  /\ wds' = updateWithdrawal(wds, i, "APPROVED")
  /\ hpc' = [hpc EXCEPT ![h] = [NoRun EXCEPT !.l = "pfetch", !.op = "approve",
                                              !.i = i]]
  /\ UNCHANGED <<build, enrVars, delVars, balance, user, cUsers, cWds, ppc, pl,
                 bal0, nReq, nRes, nPay, prof, ret, saved, nSave, apc, al, isProcessingQR,
                 feed, reminders>>

\* onClick={() => handleRejectWithdrawal(w)}, to its first await
clickReject(h, i) ==
  /\ build = "App" /\ hpc[h].l = "idle"
  /\ PendingShown("a1", i)
  /\ wds' = updateWithdrawal(wds, i, "REJECTED")
  /\ LET w == cWds["a1"][i].userId
     IN hpc' = [hpc EXCEPT ![h] =
                  [l |-> "wupd", op |-> "reject", i |-> i, w |-> w,
                   bal |-> cUsers["a1"][w] + cWds["a1"][i].amount]]
  /\ UNCHANGED <<build, enrVars, delVars, balance, user, cUsers, cWds, ppc, pl,
                 bal0, nReq, nRes, nPay, prof, ret, saved, nSave, apc, al, isProcessingQR,
                 feed, reminders>>

\* handleRejectWithdrawal: await db.updateUser(worker.id, { balance: ... })
rejectRefund(h) ==
  /\ hpc[h].l = "wupd"
  /\ balance' = updateUser(balance, hpc[h].w, hpc[h].bal)
  /\ hpc' = [hpc EXCEPT ![h].l = "pfetch"]
  /\ UNCHANGED <<build, enrVars, delVars, wds, user, cUsers, cWds, ppc, pl,
                 bal0, nReq, nRes, nPay, prof, ret, saved, nSave, apc, al, isProcessingQR,
                 feed, reminders>>

\* await fetchData() of the invocation, and its return
clickFetched(h) ==
  /\ hpc[h].l = "pfetch"
  /\ cUsers' = [cUsers EXCEPT !["a1"] = balance]
  /\ cWds' = [cWds EXCEPT !["a1"] = wds]
  /\ hpc' = [hpc EXCEPT ![h] = NoRun]
  /\ UNCHANGED <<build, enrVars, delVars, balance, wds, user, ppc, pl,
                 bal0, nReq, nRes, nPay, prof, ret, saved, nSave, apc, al, isProcessingQR,
                 feed, reminders>>

\* ----------------------------------------- the realtime change feed
\* App.tsx subscribes to the changes of table jobs and calls fetchData()
\* on each event.  A fetchData reads the store when its selects run and
\* replaces the session's collections when they have resolved; fetches run
\* side by side, and nothing orders their results.  The selects succeed.
MaxChanges == 2      \* changes other sessions make to table jobs
Fetches == {"f1", "f2"}      \* calls of fetchData that may be running at once
NoFetch ==
  [l |-> "idle", jobs |-> [j \in Jobs |-> NoJob], rows |-> [p \in Pairs |-> 0],
   ver |-> 0]
\* events: change events not yet delivered; ver: history, the changes made
\* so far; cver: history, the changes the session's collections reflect
NoFeed == [events |-> 0, ver |-> 0, cver |-> 0, f |-> [x \in Fetches |-> NoFetch]]

\* another session changes the status of job j (handleToggleJobStatus,
\* handleFinishJob): db.updateJob, and the publication emits an event
remoteJobChange(j, st) ==
  /\ build = "App" /\ feed.ver < MaxChanges
  /\ jobs[j].exists /\ jobs[j].status # st
  /\ jobs' = updateJob(jobs, j, [status |-> st])
  /\ feed' = [feed EXCEPT !.ver = @ + 1, !.events = @ + 1]
  /\ UNCHANGED <<build, payVars, delVars, rows, cJobs, cRows, pc, oj, lj, ln, ops,
                 aops, prof, ret, saved, nSave, apc, al, hpc, isProcessingQR, reminders>>

\* .on('postgres_changes', ..., () => { fetchData(); }): the event arrives at
\* session c1 and the selects of the fetchData it starts read the store
onJobsChange(f) ==
  /\ feed.events > 0 /\ feed.f[f].l = "idle"
  /\ feed' = [feed EXCEPT !.events = @ - 1,
                          !.f[f] = [l |-> "read", jobs |-> fetchedJobs,
                                    rows |-> rows, ver |-> feed.ver]]
  /\ UNCHANGED <<build, enrVars, payVars, delVars, prof, ret, saved, nSave, apc,
                 al, hpc, isProcessingQR, reminders>>

\* the selects of a fetchData have resolved: setJobs(reconciledJobs),
\* setEnrollments(e)
fetchResolved(f) ==
  /\ feed.f[f].l = "read"
  /\ cJobs' = [cJobs EXCEPT !["c1"] = feed.f[f].jobs]
  /\ cRows' = [cRows EXCEPT !["c1"] = feed.f[f].rows]
  /\ feed' = [feed EXCEPT !.cver = feed.f[f].ver, !.f[f] = NoFetch]
  /\ UNCHANGED <<build, payVars, delVars, jobs, rows, pc, oj, lj, ln, ops, aops,
                 prof, ret, saved, nSave, apc, al, hpc, isProcessingQR, reminders>>

\* ------------------------------------------------ shift reminders
\* Build B, the reminderCheck effect of a worker session (c1, enrolled in
\* job j1): it runs when the effect is set up, which is again whenever
\* `user`, `jobs` or `enrollments` is replaced, and on every tick of its
\* interval; a run that is awaiting is not stopped by a later one.
MaxChecks == 3       \* runs of reminderCheck in one behaviour
Runs == {"r1", "r2"}         \* runs that may be awaiting at once
Kinds == {"24h", "1h"}
\* (eventStart - now) in hours: more than 24.1, in (1.1, 24.1], in (0, 1.1],
\* not positive
Clock == <<"far", "24h", "1h", "past">>
NoRem == [l |-> "idle", w |-> "far"]
\* sent: REMINDER rows of table notifications for (w1, j1), by kind;
\* keys: the rem-...-sent-j1 keys of localStorage; clock: index in Clock
NoReminders ==
  [sent |-> [k \in Kinds |-> 0], keys |-> {}, clock |-> 1, n |-> 0,
   run |-> [r \in Runs |-> NoRem]]

\* db.saveNotification({user_id, title, message, type: REMINDER, event_id}):
\* one more row
saveNotification(sent, k) == [sent EXCEPT ![k] = @ + 1]

\* where a run goes next: if (diffHours > 0 && diffHours <= 1.1) and
\* !localStorage.getItem(key1h), to the await of the 1-hour reminder
check1h(w, keys) == IF w = "1h" /\ "1h" \notin keys THEN "save1" ELSE "idle"
\* if (diffHours > 0 && diffHours <= 24.1) and !localStorage.getItem(key24),
\* to the await of the 24-hour reminder
check24h(w, keys) ==
  IF w \in {"24h", "1h"} /\ "24h" \notin keys THEN "save24" ELSE check1h(w, keys)

\* the clock moves on
tick ==
  /\ build = "B" /\ reminders.clock < Len(Clock)
  /\ reminders' = [reminders EXCEPT !.clock = @ + 1]
  /\ UNCHANGED <<build, enrVars, payVars, delVars, prof, ret, saved, nSave, apc,
                 al, hpc, isProcessingQR, feed>>

\* reminderCheck() up to its first await, for the job the session's lists
\* show the worker enrolled in
reminderCheck(r) ==
  /\ build = "B" /\ reminders.n < MaxChecks
  /\ reminders.run[r].l = "idle"
  /\ isEnrolled("c1", "j1")
  /\ cJobs["c1"]["j1"].exists /\ cJobs["c1"]["j1"].status # "COMPLETED"
  /\ LET w == Clock[reminders.clock]
     IN reminders' = [reminders EXCEPT
                        !.n = @ + 1,
                        !.run[r] = [l |-> check24h(w, reminders.keys), w |-> w]]
  /\ UNCHANGED <<build, enrVars, payVars, delVars, prof, ret, saved, nSave, apc,
                 al, hpc, isProcessingQR, feed>>

\* await db.saveNotification(...) of the 24-hour reminder, then
\* localStorage.setItem(key24, 'true') and on to the 1-hour check; an
\* insert the store refuses throws and ends the run
sent24h(r) ==
  /\ reminders.run[r].l = "save24"
  /\ \E ok \in BOOLEAN :
       reminders' =
         IF ok
         THEN [reminders EXCEPT
                 !.sent = saveNotification(@, "24h"),
                 !.keys = @ \cup {"24h"},
                 !.run[r].l = check1h(reminders.run[r].w, reminders.keys)]
         ELSE [reminders EXCEPT !.run[r] = NoRem]
  /\ UNCHANGED <<build, enrVars, payVars, delVars, prof, ret, saved, nSave, apc,
                 al, hpc, isProcessingQR, feed>>

\* await db.saveNotification(...) of the 1-hour reminder, then
\* localStorage.setItem(key1h, 'true')
sent1h(r) ==
  /\ reminders.run[r].l = "save1"
  /\ \E ok \in BOOLEAN :
       reminders' =
         IF ok
         THEN [reminders EXCEPT
                 !.sent = saveNotification(@, "1h"),
                 !.keys = @ \cup {"1h"},
                 !.run[r] = NoRem]
         ELSE [reminders EXCEPT !.run[r] = NoRem]
  /\ UNCHANGED <<build, enrVars, payVars, delVars, prof, ret, saved, nSave, apc,
                 al, hpc, isProcessingQR, feed>>

-----------------------------------------------------------------------------
\* Profiles: the columns of table workers behind db.saveUser, db.updateUser,
\* db.getUserByEmail and db.getUsers

MaxSaves == 2        \* calls of db.saveUser in one behaviour

\* A string is a sequence of characters.
LetterPairs ==
  {<<"a", "A">>, <<"b", "B">>, <<"d", "D">>, <<"e", "E">>, <<"i", "I">>,
   <<"l", "L">>, <<"n", "N">>, <<"o", "O">>, <<"s", "S">>, <<"v", "V">>,
   <<"y", "Y">>}
WhiteSpace == {" ", "\n"}

UpperOf(ch) ==
  IF \E p \in LetterPairs : p[1] = ch
  THEN (CHOOSE p \in LetterPairs : p[1] = ch)[2] ELSE ch
LowerOf(ch) ==
  IF \E p \in LetterPairs : p[2] = ch
  THEN (CHOOSE p \in LetterPairs : p[2] = ch)[1] ELSE ch

\* String.prototype.toUpperCase, toLowerCase, trim
toUpperCase(str) == [i \in 1..Len(str) |-> UpperOf(str[i])]
toLowerCase(str) == [i \in 1..Len(str) |-> LowerOf(str[i])]
RECURSIVE trimStart(_)
trimStart(str) ==
  IF str # << >> /\ Head(str) \in WhiteSpace THEN trimStart(Tail(str)) ELSE str
RECURSIVE trimEnd(_)
trimEnd(str) ==
  IF str # << >> /\ str[Len(str)] \in WhiteSpace
  THEN trimEnd(SubSeq(str, 1, Len(str) - 1)) ELSE str
trim(str) == trimEnd(trimStart(str))

\* a column that is NULL, a key of an object that is undefined (no string
\* of characters equals either)
Null == <<"NULL">>
Undefined == <<"UNDEFINED">>
OptionalFields == {"password", "phone", "qrCode", "age", "experience"}

\* no row of table workers with that id
NoProfile ==
  [exists |-> FALSE, email |-> << >>, password |-> Null, phone |-> Null,
   qr_code |-> Null, age |-> Null, experience |-> Null]

\* the row a sign-in creates: { id, name, email, role, balance: 0 }
NewProfile(e) == [NoProfile EXCEPT !.exists = TRUE, !.email = e]

\* the emails of the two workers that are registered from the start
ProfileEmail == [w \in Workers |-> IF w = "w1" THEN <<"a">> ELSE <<"b">>]

\* the object a sign-in passes to db.saveUser
NewUser(id, e) ==
  [id |-> id, email |-> e, password |-> Undefined, phone |-> Undefined,
   qrCode |-> Undefined, age |-> Undefined, experience |-> Undefined]

\* a table without the constraint would take every email
NoEmailUnique(t, id, e) == TRUE
\* workers.email: UNIQUE
EmailUniqueOk(t, id, e) ==
  \A o \in Workers \ {id} : t[o].exists => t[o].email # e

\* db.saveUser: the row it sends; a key whose value is undefined is deleted
\* from it (here: stays Undefined)
dbUser(u) ==
  [id |-> u.id, email |-> trim(toLowerCase(u.email)), password |-> u.password,
   phone |-> u.phone, qr_code |-> u.qrCode, age |-> u.age,
   experience |-> u.experience]

\* a column after an upsert that carries value v for it: an absent key
\* leaves the column of an existing row and takes the default (NULL) in a
\* new one
Col(old, v, isNew) == IF v # Undefined THEN v ELSE IF isNew THEN Null ELSE old

\* supabase.from('workers').upsert(dbUser): insert, or update on the same id
upsert(t, d) ==
  LET o == t[d.id]
      n == ~o.exists
  IN [t EXCEPT ![d.id] =
        [exists |-> TRUE, email |-> d.email,
         password |-> Col(o.password, d.password, n),
         phone |-> Col(o.phone, d.phone, n),
         qr_code |-> Col(o.qr_code, d.qr_code, n),
         age |-> Col(o.age, d.age, n),
         experience |-> Col(o.experience, d.experience, n)]]

\* mapUser: a row of the table as the object the facade returns
mapUser(id, u) ==
  [id |-> id,
   email |-> u.email,
   password |-> u.password,
   phone |-> IF u.phone \in {Null, << >>} THEN << >> ELSE u.phone,
   qrCode |-> IF u.qr_code # Null THEN u.qr_code ELSE Undefined,
   age |-> u.age,
   experience |-> u.experience]

\* the rows .eq('email', email.toLowerCase().trim()) selects
RowsByEmail(t, e) ==
  {id \in Workers : t[id].exists /\ t[id].email = trim(toLowerCase(e))}

NoResult == [l |-> "none", users |-> {}]

NoUser ==
  [id |-> "none", email |-> << >>, password |-> Undefined, phone |-> Undefined,
   qrCode |-> Undefined, age |-> Undefined, experience |-> Undefined]
NoAl ==
  [e |-> << >>, id |-> "none", found |-> FALSE, img |-> << >>, reply |-> << >>]

\* db.saveUser(u); every object these specifications save has balance 0.
\* A violated constraint makes the upsert return an error, which is thrown.
dbSaveUser(u) ==
  IF EmailUniqueOk(prof, u.id, dbUser(u).email)
  THEN /\ prof' = upsert(prof, dbUser(u))
       /\ accts' = [accts EXCEPT ![u.id] = TRUE]
       /\ balance' = [balance EXCEPT ![u.id] = 0]
       /\ saved' = [saved EXCEPT ![u.id] = u]
  ELSE UNCHANGED <<prof, accts, balance, saved>>

\* some caller awaits db.saveUser(u)
saveUser(u) ==
  /\ ret = NoResult /\ nSave < MaxSaves
  /\ dbSaveUser(u)
  /\ nSave' = nSave + 1
  /\ UNCHANGED <<build, enrVars, wds, user, cUsers, cWds, ppc, pl, bal0, nReq,
                 nRes, nPay, notes, dpc, npc, ret, apc, al, uiVars>>

\* some caller awaits db.updateUser(id, { email: e }); no such row is no
\* error, a violated constraint is an error and changes nothing
updateUserEmail(id, e) ==
  /\ ret = NoResult
  /\ prof[id].exists
  /\ EmailUniqueOk(prof, id, trim(toLowerCase(e)))
  /\ prof' = [prof EXCEPT ![id].email = trim(toLowerCase(e))]
  /\ prof' # prof
  /\ UNCHANGED <<build, enrVars, payVars, delVars, ret, saved, nSave, apc, al, uiVars>>

\* some caller awaits db.getUsers()
getUsers ==
  /\ ret = NoResult
  /\ ret' = [l |-> "got",
             users |-> {mapUser(id, prof[id]) : id \in {w \in Workers : prof[w].exists}}]
  /\ UNCHANGED <<build, enrVars, payVars, delVars, prof, saved, nSave, apc, al, uiVars>>

\* some caller awaits db.getUserByEmail(e): .single() gives the one row, or
\* PGRST116 and with it null
getUserByEmail(e) ==
  /\ ret = NoResult
  /\ ret' = [l |-> "got",
             users |-> {mapUser(id, prof[id]) : id \in RowsByEmail(prof, e)}]
  /\ UNCHANGED <<build, enrVars, payVars, delVars, prof, saved, nSave, apc, al, uiVars>>

\* the caller has taken what the read returned
Returned ==
  /\ ret # NoResult
  /\ ret' = NoResult
  /\ UNCHANGED <<build, enrVars, payVars, delVars, prof, saved, nSave, apc, al, uiVars>>

\* ------------------------------------------------- sign-in provisioning
\* syncUserProfile (App.tsx), the auth listeners of builds C and D, the
\* admin logins and the registration of build B: look the email up, save a
\* new profile when none is found.  Build A only looks the profile up.
SignInBuilds == {"App", "B", "C", "D"}

\* to the first await: db.getUserByEmail(email).  A lookup that fails ends
\* the handler, except in App.tsx, whose inner catch goes on to create the
\* profile.  The id is the identity's (session.user.id) or a random UUID.
signIn_lookup(s, e, id) ==
  /\ apc[s] = "idle"
  /\ \E ok \in BOOLEAN :
       /\ ok \/ build = "App"
       /\ al' = [al EXCEPT ![s] =
            [NoAl EXCEPT !.e = e, !.id = id,
                         !.found = ok /\ RowsByEmail(prof, e) # {}]]
  /\ apc' = [apc EXCEPT ![s] = "looked"]
  /\ UNCHANGED <<build, enrVars, payVars, delVars, prof, ret, saved, nSave, uiVars>>

\* if (!profile) { ...; await db.saveUser(profile) }: a profile that was
\* found ends the sign-in, a rejected save throws
signIn_save(s) ==
  /\ apc[s] = "looked"
  /\ IF al[s].found
     THEN /\ apc' = [apc EXCEPT ![s] = "idle"]
          /\ al' = [al EXCEPT ![s] = NoAl]
          /\ UNCHANGED <<prof, accts, balance, saved, nSave>>
     ELSE /\ nSave < MaxSaves
          /\ dbSaveUser(NewUser(al[s].id, al[s].e))
          /\ nSave' = nSave + 1
          /\ IF EmailUniqueOk(prof, al[s].id, dbUser(NewUser(al[s].id, al[s].e)).email)
             THEN apc' = [apc EXCEPT ![s] = "idle"] /\ al' = [al EXCEPT ![s] = NoAl]
             ELSE apc' = [apc EXCEPT ![s] = "failed"] /\ al' = al
  /\ UNCHANGED <<build, enrVars, wds, user, cUsers, cWds, ppc, pl, bal0, nReq,
                 nRes, nPay, notes, dpc, npc, ret, uiVars>>

\* the catch of the sign-in: the error is shown or logged
signIn_failed(s) ==
  /\ apc[s] = "failed"
  /\ apc' = [apc EXCEPT ![s] = "idle"]
  /\ al' = [al EXCEPT ![s] = NoAl]
  /\ UNCHANGED <<build, enrVars, payVars, delVars, prof, ret, saved, nSave, uiVars>>

\* --------------------------------------------------- payment QR upload
\* processAndUploadQR (App.tsx, build D), handleQrUpload with
\* validateQrWithAI (builds B and C); build A has no upload.
QrBuilds == {"App", "B", "C", "D"}

YES == <<"Y", "E", "S">>
VALID == <<"V", "A", "L", "I", "D">>
\* the token the build compares the classifier's answer with
AcceptToken == IF build \in {"App", "D"} THEN YES ELSE VALID

\* response.text?.trim().toUpperCase()
result(text) == IF text = Undefined THEN Undefined ELSE toUpperCase(trim(text))

\* a comparison by result.includes(token) would accept more
Includes(text) ==
  /\ text # Undefined
  /\ \E i \in 1..Len(result(text)) : \E j \in i..Len(result(text)) :
       SubSeq(result(text), i, j) = AcceptToken
\* result === 'YES', result === 'VALID'
Accepted(text) == result(text) = AcceptToken

\* the worker of session s picks an image and confirms; the button is
\* disabled while isProcessingQR (App.tsx, build D; the flag of builds B and
\* C, dbTaskLoading, is not modelled and isProcessingQR stays false there).
\* processAndUploadQR sets the flag and starts reading the file; with a
\* file that is read and decoded the callback runs to the await of
\* ai.models.generateContent.  With one that is not, the callback of
\* App.tsx (img.onload) never runs and that of build D throws at
\* dataUrl.split: the handler is over.
handleQrUpload(s, img) ==
  /\ build \in QrBuilds
  /\ apc[s] = "idle" /\ ~isProcessingQR[s]
  /\ isProcessingQR' = [isProcessingQR EXCEPT ![s] = build \in {"App", "D"}]
  /\ \E decoded \in BOOLEAN :
       IF decoded \/ build \in {"B", "C"}
       THEN /\ apc' = [apc EXCEPT ![s] = "classify"]
            /\ al' = [al EXCEPT ![s] = [NoAl EXCEPT !.img = img]]
       ELSE UNCHANGED <<apc, al>>
  /\ UNCHANGED <<build, enrVars, payVars, delVars, prof, ret, saved, nSave, hpc, feed, reminders>>

\* the classifier answers with response.text = text; a reply that is not
\* accepted sets the warning and, at the end of the callback,
\* setIsProcessingQR(false)
classifierReplies(s, text) ==
  /\ apc[s] = "classify"
  /\ al' = [al EXCEPT ![s].reply = text]
  /\ IF Accepted(text)
     THEN apc' = [apc EXCEPT ![s] = "qrupd"] /\ UNCHANGED isProcessingQR
     ELSE /\ apc' = [apc EXCEPT ![s] = "warn"]
          /\ isProcessingQR' = [isProcessingQR EXCEPT ![s] = FALSE]
  /\ UNCHANGED <<build, enrVars, payVars, delVars, prof, ret, saved, nSave, hpc, feed, reminders>>

\* the classifier call throws: validateQrWithAI (builds B and C) catches
\* and returns false, which shows the warning; in processAndUploadQR
\* (App.tsx, build D) the rejection ends the callback, outside the try of
\* the function that registered it
classifierFails(s) ==
  /\ apc[s] = "classify"
  /\ IF build \in {"B", "C"}
     THEN /\ al' = [al EXCEPT ![s].reply = Undefined]
          /\ apc' = [apc EXCEPT ![s] = "warn"]
     ELSE /\ al' = [al EXCEPT ![s] = NoAl]
          /\ apc' = [apc EXCEPT ![s] = "idle"]
  /\ UNCHANGED <<build, enrVars, payVars, delVars, prof, ret, saved, nSave, uiVars>>

\* await db.updateUser(user.id, { qrCode: ... }), then fetchData and, at
\* the end of the callback, setIsProcessingQR(false); an update that the
\* store fails throws and ends the callback
qrUpdateStep(s) ==
  /\ apc[s] = "qrupd"
  /\ \E ok \in BOOLEAN :
       IF ok
       THEN /\ prof' = IF prof[ClientUser[s]].exists
                       THEN [prof EXCEPT ![ClientUser[s]].qr_code = al[s].img]
                       ELSE prof
            /\ isProcessingQR' = [isProcessingQR EXCEPT ![s] = FALSE]
       ELSE UNCHANGED <<prof, isProcessingQR>>
  /\ apc' = [apc EXCEPT ![s] = "idle"]
  /\ al' = [al EXCEPT ![s] = NoAl]
  /\ UNCHANGED <<build, enrVars, payVars, delVars, ret, saved, nSave, hpc, feed, reminders>>

\* the warning of a refused image is closed
warningClosed(s) ==
  /\ apc[s] = "warn"
  /\ apc' = [apc EXCEPT ![s] = "idle"]
  /\ al' = [al EXCEPT ![s] = NoAl]
  /\ UNCHANGED <<build, enrVars, payVars, delVars, prof, ret, saved, nSave, uiVars>>

-----------------------------------------------------------------------------
\* Accounts: db.deleteUser against the other calls of the facade

MaxNotes == 2        \* notification rows per worker

NoCall == [l |-> "idle", u |-> "none", n |-> 0, e |-> FALSE]
NoFanOut == [l |-> "idle", ws |-> {}]

\* ... ON DELETE CASCADE: deleting a workers row deletes the rows of
\* enrollments, withdrawals and notifications that reference it (without
\* the cascade the rows of enrollments would stay)
NoCascadeEnrollments(r, u) == r
CascadeEnrollments(r, u) == [p \in Pairs |-> IF p[1] = u THEN 0 ELSE r[p]]
NotOf(u, ws) ==
  LET keep(w) == w.userId # u IN SelectSeq(ws, keep)
CascadeWithdrawals(ws, u) == NotOf(u, ws)
CascadeNotifications(n, u) == [n EXCEPT ![u] = 0]

\* the three deletes db.deleteUser issues itself
deleteEnrollmentsByUser(r, u) == [p \in Pairs |-> IF p[1] = u THEN 0 ELSE r[p]]
deleteWithdrawalsByUser(ws, u) == NotOf(u, ws)
deleteNotificationsByUser(n, u) == [n EXCEPT ![u] = 0]

\* rows that reference worker u
RECURSIVE SumJobs(_, _, _)
SumJobs(r, u, js) ==
  IF js = {} THEN 0
  ELSE LET j == CHOOSE x \in js : TRUE
       IN r[<<u, j>>] + SumJobs(r, u, js \ {j})
RefCount(r, ws, n, u) ==
  SumJobs(r, u, Jobs) + (Len(ws) - Len(NotOf(u, ws))) + n[u]

\* db.deleteUser, first statement; its error, if any, is ignored (e records
\* that a statement of the call returned one)
deleteUser_enrollments(u) ==
  /\ dpc.l = "idle"
  /\ \E ok \in BOOLEAN :
       /\ rows' = IF ok THEN deleteEnrollmentsByUser(rows, u) ELSE rows
       /\ dpc' = [l |-> "d2", u |-> u, n |-> 0, e |-> ~ok]
  /\ UNCHANGED <<build, accVars, payVars, jobs, cJobs, cRows, pc, oj, lj, ln, ops, aops,
                 accts, notes, npc>>

\* second statement; its error, if any, is ignored
deleteUser_withdrawals ==
  /\ dpc.l = "d2"
  /\ \E ok \in BOOLEAN :
       /\ wds' = IF ok THEN deleteWithdrawalsByUser(wds, dpc.u) ELSE wds
       /\ dpc' = [dpc EXCEPT !.l = "d3", !.e = @ \/ ~ok]
  /\ UNCHANGED <<build, accVars, enrVars, balance, user, cUsers, cWds, ppc, pl,
                 bal0, nReq, nRes, nPay, accts, notes, npc>>

\* third statement; its error, if any, is ignored
deleteUser_notifications ==
  /\ dpc.l = "d3"
  /\ \E ok \in BOOLEAN :
       /\ notes' = IF ok THEN deleteNotificationsByUser(notes, dpc.u) ELSE notes
       /\ dpc' = [dpc EXCEPT !.l = "d4", !.e = @ \/ ~ok]
  /\ UNCHANGED <<build, accVars, enrVars, payVars, accts, npc>>

\* fourth statement: the workers row goes, and with it what references it;
\* n records how many rows the cascade had to remove
deleteUser_worker ==
  /\ dpc.l = "d4"
  /\ accts' = [accts EXCEPT ![dpc.u] = FALSE]
  /\ prof' = [prof EXCEPT ![dpc.u] = NoProfile]
  /\ rows' = CascadeEnrollments(rows, dpc.u)
  /\ wds' = CascadeWithdrawals(wds, dpc.u)
  /\ notes' = CascadeNotifications(notes, dpc.u)
  /\ dpc' = [dpc EXCEPT !.l = "ok", !.n = RefCount(rows, wds, notes, dpc.u)]
  /\ UNCHANGED <<build, jobs, cJobs, cRows, pc, oj, lj, ln, ops, aops,
                 balance, user, cUsers, cWds, ppc, pl, bal0, nReq, nRes, nPay,
                 npc, ret, saved, nSave, apc, al, uiVars>>

\* fourth statement fails: if (error) throw error
deleteUser_throws ==
  /\ dpc.l = "d4"
  /\ dpc' = [dpc EXCEPT !.l = "err", !.e = TRUE]
  /\ UNCHANGED <<build, accVars, enrVars, payVars, accts, notes, npc>>

\* the call is over
deleteUser_returns ==
  /\ dpc.l \in {"ok", "err"}
  /\ dpc' = NoCall
  /\ UNCHANGED <<build, accVars, enrVars, payVars, accts, notes, npc>>

\* some session calls db.saveEnrollment
Call_saveEnrollment(u, j) ==
  /\ InsertOk(jobs, rows, u, j)
  /\ rows' = saveEnrollment(rows, u, j)
  /\ UNCHANGED <<build, accVars, payVars, delVars, jobs, cJobs, cRows, pc, oj, lj, ln,
                 ops, aops>>

\* some session calls db.deleteEnrollmentByUserAndJob
Call_deleteEnrollmentByUserAndJob(u, j) ==
  /\ rows[<<u, j>>] > 0
  /\ rows' = deleteEnrollmentByUserAndJob(rows, u, j)
  /\ UNCHANGED <<build, accVars, payVars, delVars, jobs, cJobs, cRows, pc, oj, lj, ln,
                 ops, aops>>

\* some session calls db.saveWithdrawal
Call_saveWithdrawal(u) ==
  /\ UserFkOk(u) /\ Len(wds) < MaxWds
  /\ \E amt \in JobPays : wds' = saveWithdrawal(wds, u, amt)
  /\ UNCHANGED <<build, accVars, enrVars, delVars, balance, user, cUsers, cWds, ppc, pl,
                 bal0, nReq, nRes, nPay>>

\* some session calls db.saveUser for a profile it did not find (App.tsx
\* syncUserProfile, the auth listener of build D): upsert, balance 0
Call_saveUser(u) ==
  /\ ~accts[u]
  /\ accts' = [accts EXCEPT ![u] = TRUE]
  /\ prof' = [prof EXCEPT ![u] = NewProfile(ProfileEmail[u])]
  /\ balance' = [balance EXCEPT ![u] = 0]
  /\ UNCHANGED <<build, enrVars, wds, user, cUsers, cWds, ppc, pl,
                 bal0, nReq, nRes, nPay, notes, dpc, npc, ret, saved, nSave,
                 apc, al, uiVars>>

\* db.saveJob, after the upsert: select the workers' ids
saveJob_select ==
  /\ npc.l = "idle"
  /\ \A w \in Workers : notes[w] < MaxNotes
  /\ npc' = [l |-> "insert", ws |-> {w \in Workers : accts[w]}]
  /\ UNCHANGED <<build, accVars, enrVars, payVars, accts, notes, dpc>>

\* db.saveJob, last statement: one insert of a notification per selected
\* worker; the statement fails as a whole when a foreign key does, and the
\* failure is ignored
saveJob_insert ==
  /\ npc.l = "insert"
  /\ notes' = IF npc.ws # {} /\ \A w \in npc.ws : UserFkOk(w)
              THEN [w \in Workers |-> IF w \in npc.ws THEN notes[w] + 1
                                      ELSE notes[w]]
              ELSE notes
  /\ npc' = NoFanOut
  /\ UNCHANGED <<build, accVars, enrVars, payVars, accts, dpc>>

-----------------------------------------------------------------------------
\* Specifications

\* no facade call on a profile and no sign-in or upload runs
ProfileCallsIdle ==
  /\ ret = NoResult
  /\ saved = [w \in Workers |-> NoUser]
  /\ nSave = 0
  /\ apc = [s \in WorkerClients |-> "idle"]
  /\ al = [s \in WorkerClients |-> NoAl]
  /\ hpc = [h \in Handlers |-> NoRun]
  /\ isProcessingQR = [s \in WorkerClients |-> FALSE]
  /\ feed = NoFeed
  /\ reminders = NoReminders

\* both workers are registered
ProfilesIdle ==
  /\ prof = [w \in Workers |-> NewProfile(ProfileEmail[w])]
  /\ ProfileCallsIdle

\* no payment handler runs
PayIdle ==
  /\ balance = [w \in Workers |-> 0]
  /\ wds = << >>
  /\ user = [s \in WorkerSessions |-> 0]
  /\ cUsers = [a \in AdminSessions |-> balance]
  /\ cWds = [a \in AdminSessions |-> << >>]
  /\ ppc = [c \in Sessions |-> "idle"]
  /\ pl = [c \in Sessions |-> NoLocals]
  /\ bal0 = 0
  /\ nReq = 0 /\ nRes = 0 /\ nPay = 0

\* every account is there and no facade call runs
AccountsIdle ==
  /\ accts = [w \in Workers |-> TRUE]
  /\ notes = [w \in Workers |-> 0]
  /\ dpc = NoCall
  /\ npc = NoFanOut

\* the sessions have loaded a store that holds one job and no enrollment
EnrollmentsInit(caps) ==
  /\ \E cap \in caps : jobs = [j \in Jobs |-> NewJob(cap)]
  /\ rows = [p \in Pairs |-> 0]
  /\ cJobs = [c \in Clients |-> jobs]
  /\ cRows = [c \in Clients |-> rows]
  /\ pc = [c \in Clients |-> "idle"]
  /\ oj = [c \in Clients |-> "none"]
  /\ lj = [c \in Clients |-> NoJob]
  /\ ln = [c \in Clients |-> 0]
  /\ ops = [c \in WorkerClients |-> 0]
  /\ aops = FALSE

\* Enrollment bookkeeping
Init ==
  /\ build \in Builds
  /\ EnrollmentsInit(Caps)
  /\ PayIdle
  /\ AccountsIdle
  /\ ProfilesIdle

WorkerNext ==
  \E c \in WorkerClients :
    \/ \E j \in Jobs : App_handleEnrollAttempt(c, j)
    \/ App_handleEnrollConfirm(c)
    \/ \E j \in Jobs : D_handleEnrollAttempt(c, j)
    \/ D_handleEnrollConfirm(c)
    \/ \E j \in Jobs : A_handleEnroll(c, j)
    \/ \E j \in Jobs : A_handleUnenroll(c, j)
    \/ \E j \in Jobs : onEnroll(c, j)
    \/ B_enrollInJob(c)
    \/ C_enrollInJob(c)
    \/ \E j \in Jobs : onCancelEnroll(c, j)
    \/ cancelEnrollment(c)
    \/ InsertStep(c)
    \/ AlertClosed(c)
    \/ IncStep(c)
    \/ DeleteStep(c)
    \/ DecStep(c)

AdminNext ==
  \E c \in AdminClients :
    \/ \E j \in Jobs : toggleStatus(c, j)
    \/ \E j \in Jobs : finishJob(c, j)
    \/ \E j \in Jobs : openEdit(c, j)
    \/ submitEdit(c)
    \/ \E j \in Jobs : handleDeleteJob(c, j)
    \/ \E j \in Jobs : B_deleteJob(c, j)
    \/ B_deleteJobStep(c)

Next ==
  \/ WorkerNext
  \/ AdminNext
  \/ \E c \in Clients : FetchStep(c)
  \/ \E c \in Clients : FetchFails(c)
  \/ \E c \in Clients : Refresh(c)

Spec == Init /\ [][Next]_vars

\* Balance bookkeeping
PayInit ==
  /\ build \in PayBuilds
  /\ EnrollmentsInit({1})
  /\ AccountsIdle
  /\ ProfilesIdle
  /\ \E b \in Balances :
       /\ balance = [w \in Workers |-> IF w = "w1" THEN b ELSE 0]
       /\ bal0 = b
  /\ wds = << >>
  /\ user = [s \in WorkerSessions |-> balance[SessionUser[s]]]
  /\ cUsers = [a \in AdminSessions |-> balance]
  /\ cWds = [a \in AdminSessions |-> << >>]
  /\ ppc = [c \in Sessions |-> "idle"]
  /\ pl = [c \in Sessions |-> NoLocals]
  /\ nReq = 0 /\ nRes = 0 /\ nPay = 0

PayWorkerNext ==
  \E s \in WorkerSessions :
    \/ \E amt \in Amounts : handleWithdrawalAttempt(s, amt)
    \/ confirmWithdrawal(s)
    \/ A_handleRequestPayout(s)
    \/ \E amt \in Amounts : B_requestWithdrawal(s, amt)

PayAdminNext ==
  \E a \in AdminSessions :
    \/ \E i \in 1..MaxWds : App_handleApproveWithdrawal(a, i)
    \/ \E i \in 1..MaxWds : App_handleRejectWithdrawal(a, i)
    \/ \E i \in 1..MaxWds : \E st \in {"APPROVED", "REJECTED"} : A_resolve(a, i, st)
    \/ \E i \in 1..MaxWds : \E approve \in BOOLEAN : B_processWithdrawal(a, i, approve)
    \/ StatusStep(a)
    \/ \E w \in Workers : App_handleAddWorkerPay(a, w)
    \/ \E w \in Workers : A_handleAdminPay(a, w)
    \/ \E w \in Workers : B_addEarnings(a, w)

PayNext ==
  \/ PayWorkerNext
  \/ PayAdminNext
  \/ \E c \in Sessions : UpdateUserStep(c)
  \/ \E c \in Sessions : PFetchStep(c)
  \/ \E c \in Sessions : PFetchFails(c)
  \/ \E c \in Sessions : PRefresh(c)

SpecPay == PayInit /\ [][PayNext]_vars

\* Accounts: the facade's calls against one another
DelInit ==
  /\ build = "App"
  /\ EnrollmentsInit({2})
  /\ PayIdle
  /\ AccountsIdle
  /\ ProfilesIdle

DelNext ==
  \/ \E u \in Workers : deleteUser_enrollments(u)
  \/ deleteUser_withdrawals
  \/ deleteUser_notifications
  \/ deleteUser_worker
  \/ deleteUser_throws
  \/ deleteUser_returns
  \/ \E u \in Workers : \E j \in Jobs : Call_saveEnrollment(u, j)
  \/ \E u \in Workers : \E j \in Jobs : Call_deleteEnrollmentByUserAndJob(u, j)
  \/ \E u \in Workers : Call_saveWithdrawal(u)
  \/ \E u \in Workers : Call_saveUser(u)
  \/ saveJob_select
  \/ saveJob_insert

SpecDel == DelInit /\ [][DelNext]_vars

\* table workers is empty and nothing else runs
NoProfiles ==
  /\ EnrollmentsInit({1})
  /\ PayIdle
  /\ accts = [w \in Workers |-> FALSE]
  /\ notes = [w \in Workers |-> 0]
  /\ dpc = NoCall
  /\ npc = NoFanOut
  /\ prof = [w \in Workers |-> NoProfile]
  /\ ProfileCallsIdle

\* Profiles: an account is saved and read back
UserInputs ==
  [id : {"w1"}, email : {<<"a">>},
   password : {Undefined, <<"p", "w">>}, phone : {Undefined, <<"9", "9">>},
   qrCode : {Undefined, <<"q", "1">>}, age : {Undefined, <<"3", "0">>},
   experience : {Undefined, <<"2">>}]

UsersInit ==
  /\ build = "App"
  /\ NoProfiles

UsersNext ==
  \/ \E u \in UserInputs : saveUser(u)
  \/ getUsers
  \/ \E u \in UserInputs : getUserByEmail(u.email)
  \/ Returned

SpecUsers == UsersInit /\ [][UsersNext]_vars

\* Profiles: sign-ins against one another and against the facade's calls
SignInEmails == {<<"a">>, <<"A">>, <<" ", "a">>, <<"b">>}

\* worker w1 signed in before and has been paid since
OneProfile ==
  /\ EnrollmentsInit({1})
  /\ \E b \in Balances \ {0} :
       /\ balance = [w \in Workers |-> IF w = "w1" THEN b ELSE 0]
       /\ bal0 = b
  /\ wds = << >>
  /\ user = [s \in WorkerSessions |-> balance[SessionUser[s]]]
  /\ cUsers = [a \in AdminSessions |-> balance]
  /\ cWds = [a \in AdminSessions |-> << >>]
  /\ ppc = [c \in Sessions |-> "idle"]
  /\ pl = [c \in Sessions |-> NoLocals]
  /\ nReq = 0 /\ nRes = 0 /\ nPay = 0
  /\ accts = [w \in Workers |-> w = "w1"]
  /\ notes = [w \in Workers |-> 0]
  /\ dpc = NoCall
  /\ npc = NoFanOut
  /\ prof = [w \in Workers |-> IF w = "w1" THEN NewProfile(ProfileEmail[w])
                                ELSE NoProfile]
  /\ ProfileCallsIdle

SignInInit ==
  /\ build \in SignInBuilds
  /\ NoProfiles \/ OneProfile

SignInNext ==
  \/ \E s \in WorkerClients : \E e \in SignInEmails : \E id \in Workers :
       signIn_lookup(s, e, id)
  \/ \E s \in WorkerClients : signIn_save(s)
  \/ \E s \in WorkerClients : signIn_failed(s)
  \/ \E id \in Workers : \E e \in SignInEmails : saveUser(NewUser(id, e))
  \/ \E id \in Workers : \E e \in SignInEmails : updateUserEmail(id, e)

SpecSignIn == SignInInit /\ [][SignInNext]_vars

\* Profiles: uploads of a payment QR
Images == {<<"q", "1">>, <<"q", "2">>}
Replies ==
  {YES, <<"y", "e", "s">>, <<" ", "Y", "e", "s", "\n">>, <<"N", "O">>,
   <<"Y", "E", "S", ".">>, VALID, <<"v", "a", "l", "i", "d", "\n">>,
   <<"I", "N", "V", "A", "L", "I", "D">>, << >>, Undefined}

QrInit ==
  /\ build \in QrBuilds
  /\ EnrollmentsInit({1})
  /\ PayIdle
  /\ AccountsIdle
  /\ ProfilesIdle

QrNext ==
  \E s \in WorkerClients :
    \/ \E img \in Images : handleQrUpload(s, img)
    \/ \E text \in Replies : classifierReplies(s, text)
    \/ classifierFails(s)
    \/ qrUpdateStep(s)
    \/ warningClosed(s)

SpecQr == QrInit /\ [][QrNext]_vars

\* ... where a classifier call that was made ends, and so does a store
\* update that was issued
QrFair ==
  \A s \in WorkerClients :
    /\ WF_vars((\E text \in Replies : classifierReplies(s, text)) \/ classifierFails(s))
    /\ WF_vars(qrUpdateStep(s))

SpecQrLive == QrInit /\ [][QrNext]_vars /\ QrFair

\* The admin view of App.tsx over two PENDING requests of worker w1, whose
\* amounts were taken off the balance when they were made
BusyInit ==
  /\ build = "App"
  /\ EnrollmentsInit({2})
  /\ AccountsIdle
  /\ ProfilesIdle
  /\ \E b \in Balances : balance = [w \in Workers |-> IF w = "w1" THEN b ELSE 0]
  /\ \E x \in Amounts : \E y \in Amounts :
       wds = saveWithdrawal(saveWithdrawal(<< >>, "w1", x), "w1", y)
  /\ user = [s \in WorkerSessions |-> balance["w1"]]
  /\ cUsers = [a \in AdminSessions |-> balance]
  /\ cWds = [a \in AdminSessions |-> wds]
  /\ ppc = [c \in Sessions |-> "idle"]
  /\ pl = [c \in Sessions |-> NoLocals]
  /\ bal0 = balance["w1"]
  /\ nReq = 0 /\ nRes = 0 /\ nPay = 0

BusyNext ==
  \/ \E h \in Handlers : \E i \in 1..MaxWds : clickApprove(h, i)
  \/ \E h \in Handlers : \E i \in 1..MaxWds : clickReject(h, i)
  \/ \E h \in Handlers : rejectRefund(h)
  \/ \E h \in Handlers : clickFetched(h)

SpecBusy == BusyInit /\ [][BusyNext]_vars

\* The change feed of table jobs against the fetches of session c1
FeedInit ==
  /\ build = "App"
  /\ EnrollmentsInit(Caps)
  /\ PayIdle
  /\ AccountsIdle
  /\ ProfilesIdle

FeedNext ==
  \/ \E j \in Jobs : \E st \in {"OPEN", "CLOSED", "COMPLETED"} : remoteJobChange(j, st)
  \/ \E f \in Fetches : onJobsChange(f)
  \/ \E f \in Fetches : fetchResolved(f)

SpecFeed == FeedInit /\ [][FeedNext]_vars

\* Build B: worker w1 is enrolled in job j1 and session c1 shows it
RemindersInit ==
  /\ build = "B"
  /\ \E cap \in Caps : jobs = [j \in Jobs |-> [NewJob(cap) EXCEPT !.enrolledCount = 1]]
  /\ rows = [p \in Pairs |-> IF p = <<"w1", "j1">> THEN 1 ELSE 0]
  /\ cJobs = [c \in Clients |-> jobs]
  /\ cRows = [c \in Clients |-> rows]
  /\ pc = [c \in Clients |-> "idle"]
  /\ oj = [c \in Clients |-> "none"]
  /\ lj = [c \in Clients |-> NoJob]
  /\ ln = [c \in Clients |-> 0]
  /\ ops = [c \in WorkerClients |-> 0]
  /\ aops = FALSE
  /\ PayIdle
  /\ AccountsIdle
  /\ ProfilesIdle

RemindersNext ==
  \/ tick
  \/ \E r \in Runs : reminderCheck(r)
  \/ \E r \in Runs : sent24h(r)
  \/ \E r \in Runs : sent1h(r)

SpecReminders == RemindersInit /\ [][RemindersNext]_vars

\* no session is inside a handler
Quiet == \A c \in Clients : pc[c] = "idle"

-----------------------------------------------------------------------------
\* Properties of the enrollment ledger

\* C1: whenever no handler is in progress, and only workers' Enroll and
\* Cancel have run (no administrator action), the stored enrolledCount of
\* every job equals the number of enrollment rows that reference the job.
C1_CountMatchesRows ==
  (Quiet /\ ~aops) =>
    \A j \in Jobs : jobs[j].exists => jobs[j].enrolledCount = CountRows(rows, j)

\* C2: at most one enrollment row exists for each (worker, job) pair.
C2_AtMostOneRow == \A p \in Pairs : rows[p] <= 1

\* a second insert for an enrolled pair has been refused by the store:
\* the catch block's alert is up, the job is still there (so the foreign
\* key was satisfied) and the pair's row is there
C2_Witness ==
  \E c \in WorkerClients :
    /\ pc[c] = "alert"
    /\ jobs[oj[c]].exists
    /\ rows[<<ClientUser[c], oj[c]>>] = 1

\* C4: a job of capacity 1 without enrollments, two workers who each run
\* one Enroll from a list fetched before either write: once both handlers
\* have ended there is exactly one row, enrolledCount is 1 and the job is
\* CLOSED.
C4_ScenarioA ==
  \A j \in Jobs :
    ( /\ Quiet /\ ~aops
      /\ \A c \in WorkerClients : ops[c] = 1
      /\ jobs[j].exists /\ jobs[j].maxWorkers = 1 )
    => ( /\ CountRows(rows, j) = 1
         /\ jobs[j].enrolledCount = 1
         /\ jobs[j].status = "CLOSED" )

C9_NoRowsOfDeletedJob ==
  \A j \in Jobs : ~jobs[j].exists => CountRows(rows, j) = 0

\* the job was deleted while a worker was enrolled: the worker's only
\* handler was an Enroll whose row its list still shows
C9_Witness ==
  \E j \in Jobs : \E c \in WorkerClients :
    /\ ~jobs[j].exists
    /\ pc[c] = "idle" /\ ops[c] = 1
    /\ isEnrolled(c, j)

-----------------------------------------------------------------------------
\* Properties of the balance ledger

\* C3: every worker's stored balance is greater than or equal to zero.
C3_BalanceNonNegative == \A w \in Workers : balance[w] >= 0

\* the one payout request of the behaviour, for the whole starting balance
\* of worker w1, has made its writes
FullRequestDone ==
  /\ bal0 > 0 /\ nReq = 1 /\ nPay = 0
  /\ Len(wds) = 1 /\ wds[1].amount = bal0
  /\ \A s \in WorkerSessions : ppc[s] \in {"idle", "pfetch"}

\* C6: a worker with balance b > 0 requests a payout of b: right after the
\* request the stored balance is 0 and the request is PENDING with amount b;
\* when the administrator then rejects it (the click comes after the
\* request's writes), the stored balance is b again and the status REJECTED.
C6_ScenarioB ==
  /\ (FullRequestDone /\ nRes = 0)
       => (balance["w1"] = 0 /\ wds[1].status = "PENDING")
  /\ \A a \in AdminSessions :
       (FullRequestDone /\ nRes = 1 /\ ppc[a] = "pfetch" /\ pl[a].seq
          /\ wds[1].status = "REJECTED")
       => balance["w1"] = bal0

\* C7: an approve or reject started on a payout request whose stored status
\* is no longer PENDING changes neither table withdrawals nor any balance
\* with its first write.
C7_ResolvedAtMostOnce ==
  [][\A a \in AdminSessions : \A i \in 1..Len(wds) :
       (ppc[a] = "idle" /\ ppc'[a] # "idle" /\ pl'[a].i = i
          /\ wds[i].status # "PENDING")
       => (wds' = wds /\ balance' = balance)]_vars

-----------------------------------------------------------------------------
\* Properties of account deletion

\* C10: the statement of db.deleteUser that deletes the workers row leaves
\* the store without that row and without any row of enrollments,
\* withdrawals or notifications that references the worker.
C10_DeleteUserLeavesNoOrphans ==
  [][(dpc.l = "d4" /\ dpc'.l = "ok")
       => (~accts'[dpc.u] /\ RefCount(rows', wds', notes', dpc.u) = 0)]_vars

\* db.deleteUser has returned without error, and the cascade had rows to
\* remove
C10_Witness == dpc.l = "ok" /\ dpc.n > 0

-----------------------------------------------------------------------------
\* Properties of the payment handlers

\* C12: a payout request is inserted only when its amount is at most the
\* worker's balance the store holds when the row is written.
C12_RequestWithinBalance ==
  [][Len(wds') = Len(wds) + 1
       => wds'[Len(wds')].amount <= balance[wds'[Len(wds')].userId]]_vars

\* C13: the approval of a payout request whose stored status is PENDING
\* changes no worker's stored balance with its first write, and the write
\* that ends it leaves the request APPROVED.
C13_ApproveKeepsBalances ==
  [][\A a \in AdminSessions : \A i \in 1..Len(wds) :
       ( /\ ppc[a] = "idle" /\ ppc'[a] # "idle" /\ pl'[a].i = i
         /\ wds[i].status = "PENDING"
         /\ (wds'[i].status = "APPROVED" \/ ppc'[a] = "wstatus") )
       => ( /\ balance' = balance
            /\ ppc'[a] = "pfetch" => wds'[i].status = "APPROVED" )]_vars

\* C14: the write of a manual payment of x to worker w leaves w's stored
\* balance at what the store held just before the write plus x, and every
\* other balance as it was.
C14_PaymentAddsToStoredBalance ==
  [][\A a \in AdminSessions :
       (ppc[a] = "idle" /\ nPay' = nPay + 1)
       => balance' = [balance EXCEPT ![pl'[a].w] = @ + pl'[a].amt]]_vars

-----------------------------------------------------------------------------
\* Properties of Enroll and Cancel

\* C15: an enrollment row is inserted only for a job whose stored status is
\* OPEN when the row is written.
C15_EnrollOnlyOpenJobs ==
  [][\A p \in Pairs : rows'[p] > rows[p] => jobs[p[2]].status = "OPEN"]_vars

C17_EnrollClosesAtCapacity ==
  [][\A c \in WorkerClients :
       (build \in {"B", "C"} /\ pc[c] = "inc" /\ pc'[c] = "fetch"
          /\ jobs[oj[c]].exists)
       => IF jobs'[oj[c]].enrolledCount >= jobs'[oj[c]].maxWorkers
          THEN jobs'[oj[c]].status = "CLOSED"
          ELSE jobs'[oj[c]].status = jobs[oj[c]].status]_vars

-----------------------------------------------------------------------------
\* Properties of the facade

\* C18: a call of the facade one of whose store statements returned an
\* error does not complete normally: db.deleteUser does not return without
\* throwing after a failed dependent delete, and db.saveJob does not return
\* without throwing after a failed notification insert.
C18_StoreErrorsPropagate ==
  [][ /\ (dpc.l = "d4" /\ dpc'.l = "ok") => ~dpc.e
      /\ (npc.l = "insert" /\ npc'.l = "idle")
           => (npc.ws = {} \/ \A w \in npc.ws : UserFkOk(w)) ]_vars

-----------------------------------------------------------------------------
\* Properties of the profiles

\* C11: an account read back through db.getUserByEmail or db.getUsers has
\* every optional field (password, phone, qrCode, age, experience) unset,
\* null or undefined, that was unset in the object last saved for it with
\* db.saveUser.
C11_UnsetFieldsStayUnset ==
  \A r \in ret.users :
    saved[r.id] # NoUser =>
      \A f \in OptionalFields :
        saved[r.id][f] = Undefined => r[f] \in {Null, Undefined}

\* C19: no two rows of table workers have the same email when the emails
\* are compared without regard to case and to surrounding white space.
C19_EmailsUnique ==
  \A i \in Workers : \A j \in Workers \ {i} :
    (prof[i].exists /\ prof[j].exists)
      => trim(toLowerCase(prof[i].email)) # trim(toLowerCase(prof[j].email))

\* a sign-in found no profile and its save was refused: in the meantime
\* the email, written differently, had been saved under another id
C19_Witness ==
  \E s \in WorkerClients : \E o \in Workers \ {al[s].id} :
    /\ apc[s] = "failed"
    /\ prof[o].exists
    /\ prof[o].email = trim(toLowerCase(al[s].e))
    /\ saved[o].email # al[s].e

\* C20: the stored payment QR of a worker changes only in the upload of a
\* session of that worker whose classifier reply, trimmed and upper-cased,
\* is the build's accepting token; any other reply, an empty or missing
\* reply and a failed classifier call leave it as it is.
C20_QrOnlyWhenAccepted ==
  [][\A w \in Workers :
       prof'[w].qr_code # prof[w].qr_code
       => \E s \in WorkerClients :
            /\ ClientUser[s] = w
            /\ apc[s] = "qrupd"
            /\ al[s].reply # Undefined
            /\ toUpperCase(trim(al[s].reply)) = AcceptToken]_vars

\* a worker whose accepted upload is stored has had another image refused,
\* on a reply that names the token without being it, and the stored QR is
\* still the first image
C20_Witness ==
  \E s \in WorkerClients :
    /\ apc[s] = "warn"
    /\ Includes(al[s].reply)
    /\ prof[ClientUser[s]].qr_code \in Images \ {al[s].img}

\* -------------------------------------------- Properties of db.saveJob
\* C21: when a db.saveJob call returns, every account that was a WORKER when
\* the call selected the workers, and still is one, has exactly one more
\* notification than before the insert.
C21_SaveJobNotifiesEveryWorker ==
  [][(npc.l = "insert" /\ npc'.l = "idle")
       => \A w \in npc.ws : accts[w] => notes'[w] = notes[w] + 1]_vars

\* ------------------------------------- Properties of the user interface
\* C22: at most one operation of a client is in flight: while a handler of
\* the admin view is between its first store write and its return, no other
\* handler of that view is.
C22_OneOperationInFlight ==
  \A h \in Handlers : \A g \in Handlers \ {h} :
    hpc[h].l = "idle" \/ hpc[g].l = "idle"

\* ------------------------------------------- Properties of the money
\* what the PENDING and APPROVED requests of worker u hold
RECURSIVE Held(_, _)
Held(ws, u) ==
  IF ws = << >> THEN 0
  ELSE (IF Head(ws).userId = u /\ Head(ws).status \in {"PENDING", "APPROVED"}
        THEN Head(ws).amount ELSE 0) + Held(Tail(ws), u)

\* C23: in the builds that take the amount off the balance when a payout is
\* requested (App.tsx, builds A and D), as long as no manual payment has
\* been made, whenever no handler is between its store writes the stored
\* balance of worker w1 plus the amounts of w1's PENDING and APPROVED
\* requests is what w1 started with: requesting, approving and rejecting
\* neither create nor destroy money.
C23_MoneyConserved ==
  ( /\ build \in {"App", "A", "D"}
    /\ nPay = 0
    /\ \A c \in Sessions : ppc[c] \in {"idle", "wmodal"} )
  => balance["w1"] + Held(wds, "w1") = bal0

\* C24: the step of a sign-in that follows its profile lookup, whether the
\* lookup found the profile, found none or failed, leaves the row and the
\* stored balance of the account that has the sign-in's email as they are.
C24_SignInKeepsAccount ==
  [][\A s \in WorkerClients : \A w \in Workers :
       ( /\ apc[s] = "looked" /\ apc'[s] # "looked"
         /\ prof[w].exists
         /\ prof[w].email = trim(toLowerCase(al[s].e)) )
       => (prof'[w] = prof[w] /\ balance'[w] = balance[w])]_vars

\* -------------------------------------- Properties of a refused insert
\* C25: the step of an Enroll whose insert the store refuses adds no
\* enrollment row and changes no job, the handler does not go on to its
\* job update, and what it still does (closing the alert) changes neither
\* table.
C25_FailedInsertChangesNothing ==
  [][\A c \in WorkerClients :
       /\ (pc[c] = "ins" /\ pc'[c] # "ins"
             /\ ~InsertOk(jobs, rows, ClientUser[c], oj[c]))
          => (rows' = rows /\ jobs' = jobs /\ pc'[c] \in {"alert", "idle"})
       /\ (pc[c] = "alert" /\ pc'[c] # "alert")
          => (rows' = rows /\ jobs' = jobs /\ pc'[c] = "idle")]_vars

\* the insert of an Enroll was refused by the foreign key: the job had been
\* deleted while the confirmation was open
C25_Witness ==
  \E c \in WorkerClients : pc[c] = "alert" /\ ~jobs[oj[c]].exists

\* ----------------------------------- Properties of the confirmation
\* C26: in App.tsx and build D, confirming an Enroll that was started for a
\* job the session's list showed as not enrolled does not turn the handler
\* into a cancellation, whose next statement deletes the pair's enrollment
\* row.  (App.tsx opens the same confirmation for an enrolled job, and its
\* list cannot change while the confirmation is open; build D opens it only
\* for a job shown as not enrolled.)
C26_ConfirmedEnrollNeverDeletes ==
  [][\A c \in WorkerClients :
       ( /\ build \in {"App", "D"}
         /\ pc[c] = "modal"
         /\ build = "App" => ~isEnrolled(c, oj[c]) )
       => pc'[c] # "del"]_vars

\* --------------------------------------- Properties of the QR upload
\* C27: once processAndUploadQR has set isProcessingQR, the flag is false
\* again at some later time, whatever the classifier and the store answer
\* and whether or not the file can be read.
C27_ProcessingEnds ==
  \A s \in WorkerClients : isProcessingQR[s] ~> ~isProcessingQR[s]

C29_AtMostOneReminder == \A k \in Kinds : reminders.sent[k] <= 1

====
